---- MODULE Spec2Model ----
(***************************************************************************)
(* Model of SpotifyPlaylistSorter (src/app/playlist_sorter.py): the        *)
(* Camelot adjacency table, the transition score, the greedy sequencer and *)
(* the loading step that decides which tracks are eligible.                *)
(*                                                                         *)
(* Representation                                                          *)
(*   - a Camelot code "nL" is the pair <<n, L>>; f"{num}{letter}" is       *)
(*     injective on the values the code formats, so the pair carries the   *)
(*     same information as the string;                                     *)
(*   - BPM is an integer; energy is an integer number of hundredths        *)
(*     (50 is 0.5, 700 is 7.0); NaN is the sentinel NaN, an empty scraped  *)
(*     cell is the sentinel Missing;                                       *)
(*   - scores are exact rationals with the fixed denominator ScoreDenom    *)
(*     (the code computes them in binary floating point);                  *)
(*   - a DataFrame is a record [isNone, rows], rows being the sequence of  *)
(*     its rows in row order; a list that may be None is [isNone, ids].    *)
(***************************************************************************)
EXTENDS Integers, Sequences, FiniteSets, TLC

VARIABLES
    tracks_data,           \* self.tracks_data
    original_track_order,  \* self.original_track_order
    camelot_map,           \* self.camelot_map
    call,                  \* the last method called and its argument
    ret,                   \* what that call returned
    log,                   \* the log lines that call emitted
    trace,                 \* the greedy loop of that call, step by step
    memo,                  \* the last sort_playlist call and its result
    loaded,                \* the data as load_playlist left it
    playlist_id,           \* self.playlist_id
    sp_playlist,           \* the items of every playlist on Spotify, by id
    session                \* st.session_state of app.py

vars ==
    <<tracks_data, original_track_order, camelot_map, call, ret, log, trace,
      memo, loaded, playlist_id, sp_playlist, session>>

\* what no method of the sorter but update_spotify_playlist touches
outside == <<playlist_id, sp_playlist, session>>

\* ------------------------------------------------------------------------
\* Bounds
\* ------------------------------------------------------------------------
MaxLen == 3        \* longest scraped table

\* ------------------------------------------------------------------------
\* Sentinels
\* ------------------------------------------------------------------------
NaN == -1          \* numpy NaN in a numeric column
NaNKey == <<0, "NaN">>      \* NaN in the Camelot column
MissingKey == <<0, "">>     \* an absent Camelot cell

isna(x) == x = NaN
isnaKey(k) == k = NaNKey

\* ------------------------------------------------------------------------
\* _build_camelot_map
\* ------------------------------------------------------------------------
numbers == 1..12
letters == <<"A", "B">>

CamelotKey(num, letter) == <<num, letter>>

other_letter(letter) == IF letter = "A" THEN "B" ELSE "A"

\* the predecessor without the wrap from 1 to 12
prev_num_nowrap(num) == num - 1

prev_num(num) == IF num = 1 THEN 12 ELSE num - 1

\* the successor without the wrap from 12 to 1
next_num_nowrap(num) == num + 1

next_num(num) == IF num = 12 THEN 1 ELSE num + 1

neighbors(num, letter) ==
    <<CamelotKey(num, other_letter(letter))>>
        \o <<CamelotKey(prev_num(num), letter), CamelotKey(next_num(num), letter)>>

\* the inner loop over letters, from index li on, assigning into map m
RECURSIVE BuildLetters(_, _, _)
BuildLetters(num, li, m) ==
    IF li > Len(letters) THEN m
    ELSE BuildLetters(num, li + 1,
            (CamelotKey(num, letters[li]) :> neighbors(num, letters[li])) @@ m)

\* the outer loop over numbers, from num on
RECURSIVE BuildNumbers(_, _)
BuildNumbers(num, m) ==
    IF num > 12 THEN m
    ELSE BuildNumbers(num + 1, BuildLetters(num, 1, m))

EmptyMap == [k \in {} |-> <<>>]

_build_camelot_map == BuildNumbers(1, EmptyMap)

\* membership in a Python list
InList(x, list) == \E i \in 1..Len(list) : list[i] = x

\* ------------------------------------------------------------------------
\* The page served by songdata.io: the rows of the track table.  A numeric
\* cell is <<"num", v>> when its text parses as the number v and
\* <<"text", 0>> when it does not; Missing when the cell is absent/empty.
\* ------------------------------------------------------------------------
Num(v) == <<"num", v>>
Text == <<"text", 0>>
MissingCell == <<"none", 0>>

Catalogue ==
    << [id |-> 1, Camelot |-> <<8, "A">>,  BPM |-> Num(120), Energy |-> Num(50)],
       [id |-> 2, Camelot |-> <<9, "A">>,  BPM |-> Num(122), Energy |-> Num(60)],
       [id |-> 3, Camelot |-> <<2, "B">>,  BPM |-> Num(180), Energy |-> Num(10)],
       [id |-> 4, Camelot |-> <<9, "A">>,  BPM |-> Num(122), Energy |-> Num(60)],
       [id |-> 5, Camelot |-> <<13, "A">>, BPM |-> Text,     Energy |-> Num(70)],
       [id |-> 6, Camelot |-> <<8, "b">>,  BPM |-> Num(118), Energy |-> Num(700)],
       [id |-> 7, Camelot |-> <<7, "A">>,  BPM |-> MissingCell, Energy |-> Num(30)] >>

CatalogueIds == 1..Len(Catalogue)

NoSuchId == 0      \* an id that is in no playlist

AnchorIds == CatalogueIds \cup {NoSuchId}

\* tables of at most n rows with pairwise distinct ids (spec.md section 3:
\* the id is a unique identifier)
RECURSIVE Tables(_)
Tables(n) ==
    IF n = 0 THEN {<<>>}
    ELSE LET shorter == Tables(n - 1)
         IN  shorter \cup
             {Append(t, Catalogue[i]) : t \in {u \in shorter : Len(u) = n - 1},
                                        i \in CatalogueIds}

DistinctIds(t) == \A i, j \in 1..Len(t) : i # j => t[i].id # t[j].id

ScrapedTables == {t \in Tables(MaxLen) : DistinctIds(t)}

\* ------------------------------------------------------------------------
\* _scrape_songdata_io
\* ------------------------------------------------------------------------
\* pd.to_numeric(errors='coerce') on one cell
to_numeric(cell) == IF cell[1] = "num" THEN cell[2] ELSE NaN

\* str.upper on the letter of a code
upper(letter) ==
    IF letter = "a" THEN "A" ELSE IF letter = "b" THEN "B" ELSE letter

\* the regex ^[1-9]A$|^1[0-2]A$|^[1-9]B$|^1[0-2]B$
valid_camelot(k) == k[1] \in 1..12 /\ k[2] \in {"A", "B"}

\* lines 126-128: a row with an absent essential cell is skipped
has_all_cells(r) ==
    /\ r.Camelot # MissingKey
    /\ r.BPM # MissingCell
    /\ r.Energy # MissingCell

\* Series.max() skips NaN; the maximum of no value is NaN
SeriesMax(col) ==
    LET vals == {col[i] : i \in 1..Len(col)} \ {NaN}
    IN  IF vals = {} THEN NaN
        ELSE CHOOSE m \in vals : \A v \in vals : v <= m

\* the column is divided only when its maximum exceeds 10.0
NormalizeEnergy_above10(raw_energy) ==
    IF SeriesMax(raw_energy) > 1000
    THEN [i \in 1..Len(raw_energy) |->
             IF isna(raw_energy[i]) THEN NaN ELSE raw_energy[i] \div 10]
    ELSE raw_energy

\* lines 155-160: the whole column is divided by 10 when its maximum
\* exceeds 1.0
NormalizeEnergy(raw_energy) ==
    IF SeriesMax(raw_energy) > 100
    THEN [i \in 1..Len(raw_energy) |->
             IF isna(raw_energy[i]) THEN NaN ELSE raw_energy[i] \div 10]
    ELSE raw_energy

\* lines 165-170
CleanCamelot(k) ==
    LET up == <<k[1], upper(k[2])>>
    IN  IF valid_camelot(up) THEN up ELSE NaNKey

\* returns [isNone, rows]: None when the page cannot be used, else the frame
_scrape_songdata_io(page) ==
    LET tracks == SelectSeq(page.rows, has_all_cells)
        raw_energy == [i \in 1..Len(tracks) |-> to_numeric(tracks[i].Energy)]
        energy == NormalizeEnergy(raw_energy)
    IN  IF ~page.ok \/ Len(page.rows) = 0 \/ Len(tracks) = 0
        THEN [isNone |-> TRUE, rows |-> <<>>]
        ELSE [isNone |-> FALSE,
              rows |-> [i \in 1..Len(tracks) |->
                          [id |-> tracks[i].id,
                           Camelot |-> CleanCamelot(tracks[i].Camelot),
                           BPM |-> to_numeric(tracks[i].BPM),
                           Energy |-> energy[i]]]]

Pages ==
    {[ok |-> TRUE, rows |-> t] : t \in ScrapedTables}
        \cup {[ok |-> FALSE, rows |-> <<>>]}

\* ------------------------------------------------------------------------
\* load_playlist
\* ------------------------------------------------------------------------
ids_of(rows) == [i \in 1..Len(rows) |-> rows[i].id]

\* dropna(subset=['id', 'Energy'])
complete_row_energy_only(r) == ~isna(r.Energy)

\* dropna(subset=['id', 'Camelot', 'BPM', 'Energy'])
complete_row(r) == ~isnaKey(r.Camelot) /\ ~isna(r.BPM) /\ ~isna(r.Energy)

dropna(rows) == SelectSeq(rows, complete_row)

NoTrace == [iters |-> 0, evals |-> 0, rems |-> <<>>, stopped |-> FALSE]
NoMemo == [set |-> FALSE, anchor |-> NoSuchId, ret |-> <<>>]

Call(op, arg, anchor, rerun) ==
    [op |-> op, arg |-> arg, anchor |-> anchor, rerun |-> rerun]

\* the whole method: [data, order, ret, log]
LoadPlaylist(page) ==
    LET scraped_data == _scrape_songdata_io(page)
    IN  IF scraped_data.isNone \/ Len(scraped_data.rows) = 0
        THEN [data |-> [isNone |-> FALSE, rows |-> <<>>],
              order |-> [isNone |-> FALSE, ids |-> <<>>],
              ret |-> [isNone |-> TRUE, rows |-> <<>>],
              log |-> <<"scrape failed">>]
        ELSE [data |-> [isNone |-> FALSE, rows |-> dropna(scraped_data.rows)],
              order |-> [isNone |-> FALSE, ids |-> ids_of(scraped_data.rows)],
              ret |-> IF Len(dropna(scraped_data.rows)) = 0
                      THEN [isNone |-> TRUE, rows |-> <<>>]
                      ELSE [isNone |-> FALSE, rows |-> dropna(scraped_data.rows)],
              log |-> (IF Len(dropna(scraped_data.rows)) < Len(scraped_data.rows)
                       THEN <<"dropped tracks">> ELSE <<>>)
                      \o (IF Len(dropna(scraped_data.rows)) = 0
                          THEN <<"no tracks remaining">> ELSE <<>>)]

load_playlist(page) ==
    \E r \in {LoadPlaylist(page)} :
        /\ tracks_data' = r.data
        /\ original_track_order' = r.order
        /\ ret' = r.ret
        /\ log' = r.log
        /\ call' = Call("load_playlist", <<>>, NoSuchId, FALSE)
        /\ trace' = NoTrace
        /\ memo' = NoMemo
        /\ loaded' = [data |-> r.data, order |-> r.order]
        /\ UNCHANGED camelot_map
        /\ UNCHANGED outside

Load == tracks_data.isNone /\ \E page \in Pages : load_playlist(page)

\* ------------------------------------------------------------------------
\* calculate_transition_score.  The value returned is the score multiplied
\* by ScoreDenom, an exact integer: bpm_score is kept in 1/20ths, energy_score
\* in 1/200ths, the key multiplier in halves and each bonus in tenths.
\* ------------------------------------------------------------------------
ScoreDenom == 200000
Inf == 1000000     \* float('inf')

Abs(x) == IF x < 0 THEN -x ELSE x
Max(a, b) == IF b > a THEN b ELSE a

\* only the next number on the wheel counts as compatible
key_compatible_forward(cmap, key1, key2) ==
    IF isnaKey(key1) \/ isnaKey(key2) \/ key1 \notin DOMAIN cmap
    THEN FALSE
    ELSE key2 = cmap[key1][3]

key_compatible(cmap, key1, key2) ==
    IF isnaKey(key1) \/ isnaKey(key2) \/ key1 \notin DOMAIN cmap
    THEN FALSE
    ELSE InList(key2, cmap[key1])

\* 1.5 or 0.5, in halves
key_multiplier(cmap, key1, key2) ==
    IF key_compatible(cmap, key1, key2) THEN 3 ELSE 1

\* the difference without abs()
bpm_diff_signed(bpm1, bpm2) ==
    IF isna(bpm1) \/ isna(bpm2) THEN Inf ELSE bpm1 - bpm2

bpm_diff(bpm1, bpm2) ==
    IF isna(bpm1) \/ isna(bpm2) THEN Inf ELSE Abs(bpm1 - bpm2)

\* the sign of the BPM term slipped: max(0, bpm_diff / 20.0 - 1)
bpm_score_sign(bpm1, bpm2) ==
    IF isna(bpm1) \/ isna(bpm2) THEN 0 ELSE Max(0, bpm_diff(bpm1, bpm2) - 20)

\* max(0, 1 - bpm_diff / 20.0), in 1/20ths
bpm_score(bpm1, bpm2) ==
    IF isna(bpm1) \/ isna(bpm2) THEN 0 ELSE Max(0, 20 - bpm_diff(bpm1, bpm2))

\* drops are penalized like rises
energy_score_symmetric(energy1, energy2) ==
    IF isna(energy1) \/ isna(energy2) THEN 100
    ELSE Max(0, 200 - Abs(energy2 - energy1))

\* in 1/200ths; energies are hundredths, so -0.1 is -10
energy_score(energy1, energy2) ==
    IF isna(energy1) \/ isna(energy2) THEN 100
    ELSE LET energy_diff == energy2 - energy1
         IN  IF energy_diff >= -10
             THEN Max(0, 200 - Abs(energy_diff))
             ELSE Max(0, 200 - 3 * Abs(energy_diff))

\* the two weights exchanged
base_score_swapped(track1, track2) ==
    20 * bpm_score(track1.BPM, track2.BPM)
        + 3 * energy_score(track1.Energy, track2.Energy)

\* (bpm_score * 0.6) + (energy_score * 0.4), in 1/1000ths
base_score(track1, track2) ==
    30 * bpm_score(track1.BPM, track2.BPM)
        + 2 * energy_score(track1.Energy, track2.Energy)

calculate_transition_score(cmap, track1, track2) ==
    LET key1 == track1.Camelot
        key2 == track2.Camelot
        final_score == base_score(track1, track2) * key_multiplier(cmap, key1, key2)
        key_bonus == IF key_compatible(cmap, key1, key2) /\ key1 = key2 THEN 11 ELSE 10
        bpm_bonus == IF bpm_diff(track1.BPM, track2.BPM) <= 3 THEN 11 ELSE 10
    IN  final_score * key_bonus * bpm_bonus

\* ------------------------------------------------------------------------
\* sort_playlist
\* ------------------------------------------------------------------------
NoCutoff == -1

SeqToSet(q) == {q[i] : i \in 1..Len(q)}

\* drops the first row instead of the labelled one
drop_first(rows, label) == Tail(rows)

\* DataFrame.drop(label) on a frame indexed by id: row order is kept
drop(rows, label) == SelectSeq(rows, LAMBDA r : r.id # label)

\* Series.idxmin() in the place of idxmax()
idxmin(scores) ==
    CHOOSE i \in 1..Len(scores) :
        /\ \A j \in 1..Len(scores) : scores[j] >= scores[i]
        /\ \A j \in 1..(i - 1) : scores[j] > scores[i]

\* the last occurrence of the maximum instead of the first
idxmax_last(scores) ==
    CHOOSE i \in 1..Len(scores) :
        /\ \A j \in 1..Len(scores) : scores[j] <= scores[i]
        /\ \A j \in (i + 1)..Len(scores) : scores[j] < scores[i]

\* Series.idxmax(): the position of the first occurrence of the maximum
idxmax(scores) ==
    CHOOSE i \in 1..Len(scores) :
        /\ \A j \in 1..Len(scores) : scores[j] <= scores[i]
        /\ \A j \in 1..(i - 1) : scores[j] < scores[i]

\* lines 292-315.  st is the loop state: current_id, sorted_ids,
\* remaining_tracks, and the record of the run (iterations entered, score
\* evaluations, the ids of remaining_tracks at each test of the loop
\* condition, whether a break was taken).  cutoff = NoCutoff in the program;
\* another value makes the break of lines 304-306 fire in that iteration.
RECURSIVE GreedyLoop(_, _, _, _)
GreedyLoop(cmap, sortable_tracks, st, cutoff) ==
    LET rems == Append(st.rems, ids_of(st.remaining_tracks))
    IN  IF Len(st.remaining_tracks) = 0
        THEN [st EXCEPT !.rems = rems]
        ELSE
        LET current_track_data ==
                SelectSeq(sortable_tracks, LAMBDA r : r.id = st.current_id)
        IN  IF Len(current_track_data) = 0
            THEN [st EXCEPT !.rems = rems, !.stopped = TRUE, !.iters = @ + 1]
            ELSE
            LET current_track == current_track_data[1]
                scores == [i \in 1..Len(st.remaining_tracks) |->
                              calculate_transition_score(cmap, current_track,
                                                         st.remaining_tracks[i])]
                evals == st.evals + Len(scores)
            IN  IF \/ Len(scores) = 0
                   \/ \A i \in 1..Len(scores) : isna(scores[i])
                   \/ st.iters = cutoff
                THEN [st EXCEPT !.rems = rems, !.stopped = TRUE,
                                !.iters = @ + 1, !.evals = evals]
                ELSE
                LET next_track_idx == idxmax(scores)
                    next_track == st.remaining_tracks[next_track_idx]
                IN  GreedyLoop(cmap, sortable_tracks,
                        [current_id |-> next_track.id,
                         sorted_ids |-> Append(st.sorted_ids, next_track.id),
                         remaining_tracks |-> drop(st.remaining_tracks, next_track.id),
                         iters |-> st.iters + 1,
                         evals |-> evals,
                         rems |-> rems,
                         stopped |-> FALSE],
                        cutoff)

\* appends every id of the original order that was not placed, with or
\* without data
AppendMissing_all(sorted_ids, sortable_tracks, order) ==
    sorted_ids \o SelectSeq(order.ids, LAMBDA tid : tid \notin SeqToSet(sorted_ids))

\* lines 317-328: ids that had data but were not placed, in original order
AppendMissing(sorted_ids, sortable_tracks, order) ==
    LET initial_sortable_ids == SeqToSet(ids_of(sortable_tracks))
        missing_from_sort == initial_sortable_ids \ SeqToSet(sorted_ids)
    IN  IF missing_from_sort # {}
        THEN sorted_ids \o SelectSeq(order.ids, LAMBDA tid : tid \in missing_from_sort)
        ELSE sorted_ids

\* looks the anchor up in the original order instead of the filtered rows
anchor_found_original(start_track_id, sortable_tracks, order) ==
    InList(start_track_id, order.ids)

\* line 280: start_track_id in sortable_tracks['id'].values
anchor_found(start_track_id, sortable_tracks, order) ==
    InList(start_track_id, ids_of(sortable_tracks))

\* the test of the original order inverted
anchor_filtered_out_inverted(start_track_id, order) ==
    order.isNone \/ Len(order.ids) = 0 \/ ~InList(start_track_id, order.ids)

\* line 282: the anchor was scraped but dropped for missing data
anchor_filtered_out(start_track_id, order) ==
    ~order.isNone /\ Len(order.ids) > 0 /\ InList(start_track_id, order.ids)

\* the anchor is not removed from remaining_tracks before the loop
SortPlaylist_keep_anchor(data, order, cmap, start_track_id, cutoff) ==
    IF data.isNone \/ Len(data.rows) = 0
    THEN [ret |-> <<>>, log |-> <<"no track data">>, trace |-> NoTrace]
    ELSE
    LET sortable_tracks == data.rows
    IN  IF ~anchor_found(start_track_id, sortable_tracks, order)
        THEN [ret |-> <<>>,
              log |-> <<"start track not found">>
                      \o (IF anchor_filtered_out(start_track_id, order)
                          THEN <<"anchor filtered out">> ELSE <<>>),
              trace |-> NoTrace]
        ELSE
        LET st == GreedyLoop(cmap, sortable_tracks,
                     [current_id |-> start_track_id,
                      sorted_ids |-> <<start_track_id>>,
                      remaining_tracks |-> sortable_tracks,
                      iters |-> 0, evals |-> 0, rems |-> <<>>, stopped |-> FALSE],
                     cutoff)
            sorted_ids == AppendMissing(st.sorted_ids, sortable_tracks, order)
        IN  [ret |-> sorted_ids,
             log |-> (IF st.stopped THEN <<"stopping sort">> ELSE <<>>)
                     \o (IF Len(sorted_ids) > Len(st.sorted_ids)
                         THEN <<"appending tracks not placed">> ELSE <<>>),
             trace |-> [iters |-> st.iters, evals |-> st.evals,
                        rems |-> st.rems, stopped |-> st.stopped]]

\* the whole method: [ret, log, trace]
SortPlaylist(data, order, cmap, start_track_id, cutoff) ==
    IF data.isNone \/ Len(data.rows) = 0
    THEN [ret |-> <<>>, log |-> <<"no track data">>, trace |-> NoTrace]
    ELSE
    LET sortable_tracks == data.rows
    IN  IF ~anchor_found(start_track_id, sortable_tracks, order)
        THEN [ret |-> <<>>,
              log |-> <<"start track not found">>
                      \o (IF anchor_filtered_out(start_track_id, order)
                          THEN <<"anchor filtered out">> ELSE <<>>),
              trace |-> NoTrace]
        ELSE
        LET st == GreedyLoop(cmap, sortable_tracks,
                     [current_id |-> start_track_id,
                      sorted_ids |-> <<start_track_id>>,
                      remaining_tracks |-> drop(sortable_tracks, start_track_id),
                      iters |-> 0, evals |-> 0, rems |-> <<>>, stopped |-> FALSE],
                     cutoff)
            sorted_ids == AppendMissing(st.sorted_ids, sortable_tracks, order)
        IN  [ret |-> sorted_ids,
             log |-> (IF st.stopped THEN <<"stopping sort">> ELSE <<>>)
                     \o (IF Len(sorted_ids) > Len(st.sorted_ids)
                         THEN <<"appending tracks not placed">> ELSE <<>>),
             trace |-> [iters |-> st.iters, evals |-> st.evals,
                        rems |-> st.rems, stopped |-> st.stopped]]

\* sorts self.tracks_data itself instead of a copy: the rows are left in the
\* order of the result
sort_playlist_inplace(start_track_id, cutoff) ==
    LET r == SortPlaylist(tracks_data, original_track_order, camelot_map,
                          start_track_id, cutoff)
    IN  /\ ret' = r.ret
        /\ log' = r.log
        /\ trace' = r.trace
        /\ call' = Call("sort_playlist", <<>>, start_track_id,
                        memo.set /\ memo.anchor = start_track_id)
        /\ memo' = [set |-> TRUE, anchor |-> start_track_id, ret |-> r.ret]
        /\ tracks_data' =
               IF r.ret = <<>> THEN tracks_data
               ELSE [tracks_data EXCEPT !.rows =
                        [i \in 1..Len(r.ret) |->
                            CHOOSE row \in SeqToSet(tracks_data.rows) : row.id = r.ret[i]]]
        /\ UNCHANGED <<original_track_order, camelot_map, loaded>>
        /\ UNCHANGED outside

sort_playlist(start_track_id, cutoff) ==
    LET r == SortPlaylist(tracks_data, original_track_order, camelot_map,
                          start_track_id, cutoff)
    IN  /\ ret' = r.ret
        /\ log' = r.log
        /\ trace' = r.trace
        /\ call' = Call("sort_playlist", <<>>, start_track_id,
                        memo.set /\ memo.anchor = start_track_id)
        /\ memo' = [set |-> TRUE, anchor |-> start_track_id, ret |-> r.ret]
        /\ UNCHANGED <<tracks_data, original_track_order, camelot_map, loaded>>
        /\ UNCHANGED outside

Sort == \E start_track_id \in AnchorIds : sort_playlist(start_track_id, NoCutoff)

\* The greedy loop leaves by its break.  The guards of lines 294 and 304
\* test frames and scores computed by pandas; on rows that load_playlist
\* kept, the exact scores of this model never make them true, so Sort never
\* takes the break.  SortEarly admits it in any iteration, for the
\* properties of the lines that follow the loop.
SortEarly ==
    \E start_track_id \in AnchorIds, cutoff \in 0..MaxLen :
        /\ SortPlaylist(tracks_data, original_track_order, camelot_map,
                        start_track_id, cutoff).trace.stopped
        /\ sort_playlist(start_track_id, cutoff)

\* ------------------------------------------------------------------------
\* Arguments a caller passes as sorted_ids: the result of the last
\* sort_playlist call, and a few lists of its own making, with an unknown
\* id, a repeated id and fewer than two ids among them.
\* ------------------------------------------------------------------------
OtherLists ==
    {<<>>, <<1>>, <<2, 1>>, <<NoSuchId, 1>>, <<1, 1>>, <<2, NoSuchId, 1>>,
     <<NoSuchId, 2, 1>>}

ArgLists == OtherLists \cup (IF memo.set THEN {memo.ret} ELSE {})

\* ------------------------------------------------------------------------
\* compare_playlists
\* ------------------------------------------------------------------------
\* enumerate(valid_original_ids) without the start 1
position_map_zero_based(list, x) ==
    (CHOOSE p \in 1..Len(list) :
        list[p] = x /\ \A q \in (p + 1)..Len(list) : list[q] # x) - 1

\* the position of the last occurrence of x in list, starting at 1: the
\* dict comprehension of line 353 keeps the last position of an id
position_map(list, x) ==
    CHOOSE p \in 1..Len(list) :
        list[p] = x /\ \A q \in (p + 1)..Len(list) : list[q] # x

EmptyFrames == << <<>>, <<>> >>

ComparePlaylists(data, order, sorted_ids) ==
    IF data.isNone \/ Len(data.rows) = 0 \/ order.isNone \/ Len(order.ids) = 0
    THEN EmptyFrames
    ELSE
    LET data_ids == ids_of(data.rows)
        valid_original_ids == SelectSeq(order.ids, LAMBDA tid : InList(tid, data_ids))
        valid_sorted_ids == SelectSeq(sorted_ids, LAMBDA tid : InList(tid, data_ids))
    IN  IF Len(valid_original_ids) = 0 \/ Len(valid_sorted_ids) = 0
        THEN EmptyFrames
        ELSE
        << [i \in 1..Len(valid_original_ids) |->
               [id |-> valid_original_ids[i], Position |-> i]],
           [i \in 1..Len(valid_sorted_ids) |->
               [id |-> valid_sorted_ids[i],
                Position |-> i,
                OriginalPosition |-> position_map(valid_original_ids, valid_sorted_ids[i]),
                PositionChange |->
                    position_map(valid_original_ids, valid_sorted_ids[i]) - i]] >>

\* filters self.tracks_data itself instead of a copy
compare_playlists_inplace(sorted_ids) ==
    /\ ret' = ComparePlaylists(tracks_data, original_track_order, sorted_ids)
    /\ log' = IF ret' = EmptyFrames THEN <<"cannot compare">> ELSE <<>>
    /\ call' = Call("compare_playlists", sorted_ids, NoSuchId, FALSE)
    /\ trace' = NoTrace
    /\ tracks_data' =
           [tracks_data EXCEPT !.rows =
               SelectSeq(tracks_data.rows, LAMBDA r : InList(r.id, sorted_ids))]
    /\ UNCHANGED <<original_track_order, camelot_map, memo, loaded>>
    /\ UNCHANGED outside

compare_playlists(sorted_ids) ==
    /\ ret' = ComparePlaylists(tracks_data, original_track_order, sorted_ids)
    /\ log' = IF ret' = EmptyFrames THEN <<"cannot compare">> ELSE <<>>
    /\ call' = Call("compare_playlists", sorted_ids, NoSuchId, FALSE)
    /\ trace' = NoTrace
    /\ UNCHANGED <<tracks_data, original_track_order, camelot_map, memo, loaded>>
    /\ UNCHANGED outside

Compare == \E sorted_ids \in ArgLists : compare_playlists(sorted_ids)

\* ------------------------------------------------------------------------
\* get_transition_analysis.  Every entry is a record of one shape; kind says
\* which keys the dict of the code has.
\* ------------------------------------------------------------------------
Entry(kind, index) ==
    [kind |-> kind, index |-> index, track1 |-> NoSuchId, track2 |-> NoSuchId,
     key_compatible |-> FALSE,
     perfect_key_match |-> FALSE, score |-> 0,
     valid_transitions |-> 0, total_transitions |-> 0]

\* track_map.get(id): the rows of that id (none when the id is unknown)
track_map(data, id) == SelectSeq(data.rows, LAMBDA r : r.id = id)

\* "index": i instead of i+1, the loop variable that starts at 0
TransitionEntry_zero_based(data, cmap, sorted_ids, i) ==
    LET track1_data == track_map(data, sorted_ids[i])
        track2_data == track_map(data, sorted_ids[i + 1])
    IN  IF Len(track1_data) = 0 \/ Len(track2_data) = 0
        THEN [Entry("skipped", i - 1) EXCEPT !.track1 = sorted_ids[i],
                                         !.track2 = sorted_ids[i + 1]]
        ELSE
        LET track1 == track1_data[Len(track1_data)]
            track2 == track2_data[Len(track2_data)]
            has_essential_data == complete_row(track1) /\ complete_row(track2)
        IN  IF has_essential_data
            THEN [Entry("scored", i - 1) EXCEPT
                    !.track1 = track1.id,
                    !.track2 = track2.id,
                    !.score = calculate_transition_score(cmap, track1, track2),
                    !.key_compatible =
                        IF track1.Camelot \in DOMAIN cmap
                        THEN InList(track2.Camelot, cmap[track1.Camelot])
                        ELSE FALSE,
                    !.perfect_key_match = (track1.Camelot = track2.Camelot)]
            ELSE [Entry("missing data", i - 1) EXCEPT !.track1 = track1.id,
                                                  !.track2 = track2.id]

\* lines 382-449 for the pair at positions i, i+1 (i from 1)
TransitionEntry(data, cmap, sorted_ids, i) ==
    LET track1_data == track_map(data, sorted_ids[i])
        track2_data == track_map(data, sorted_ids[i + 1])
    IN  IF Len(track1_data) = 0 \/ Len(track2_data) = 0
        THEN [Entry("skipped", i) EXCEPT !.track1 = sorted_ids[i],
                                         !.track2 = sorted_ids[i + 1]]
        ELSE
        LET track1 == track1_data[Len(track1_data)]
            track2 == track2_data[Len(track2_data)]
            has_essential_data == complete_row(track1) /\ complete_row(track2)
        IN  IF has_essential_data
            THEN [Entry("scored", i) EXCEPT
                    !.track1 = track1.id,
                    !.track2 = track2.id,
                    !.score = calculate_transition_score(cmap, track1, track2),
                    !.key_compatible =
                        IF track1.Camelot \in DOMAIN cmap
                        THEN InList(track2.Camelot, cmap[track1.Camelot])
                        ELSE FALSE,
                    !.perfect_key_match = (track1.Camelot = track2.Camelot)]
            ELSE [Entry("missing data", i) EXCEPT !.track1 = track1.id,
                                                  !.track2 = track2.id]

\* total_score = score instead of total_score += score
SumScores_last(entries) ==
    LET scored == {i \in 1..Len(entries) : entries[i].kind = "scored"}
    IN  IF scored = {} THEN 0
        ELSE entries[CHOOSE i \in scored : \A j \in scored : j <= i].score

RECURSIVE SumScores(_)
SumScores(entries) ==
    IF Len(entries) = 0 THEN 0
    ELSE (IF entries[1].kind = "scored" THEN entries[1].score ELSE 0)
             + SumScores(Tail(entries))

\* short-circuits only for the empty sequence: len(sorted_ids) < 1
GetTransitionAnalysis_empty_only(data, cmap, sorted_ids) ==
    IF data.isNone \/ Len(data.rows) = 0
    THEN <<>>
    ELSE IF Len(sorted_ids) < 1
    THEN <<Entry("not enough tracks", 0)>>
    ELSE
    LET transitions == [i \in 1..(Len(sorted_ids) - 1) |->
                           TransitionEntry(data, cmap, sorted_ids, i)]
        valid_transitions ==
            Cardinality({i \in 1..Len(transitions) : transitions[i].kind = "scored"})
        total_score == SumScores(transitions)
    IN  Append(transitions,
               [Entry(IF valid_transitions > 0 THEN "summary" ELSE "summary no valid", 0)
                  EXCEPT !.score = total_score,
                         !.valid_transitions = valid_transitions,
                         !.total_transitions = Len(sorted_ids) - 1])

\* average_score is total_score / valid_transitions; the summary keeps the
\* two numbers of the quotient
GetTransitionAnalysis(data, cmap, sorted_ids) ==
    IF data.isNone \/ Len(data.rows) = 0
    THEN <<>>
    ELSE IF Len(sorted_ids) < 2
    THEN <<Entry("not enough tracks", 0)>>
    ELSE
    LET transitions == [i \in 1..(Len(sorted_ids) - 1) |->
                           TransitionEntry(data, cmap, sorted_ids, i)]
        valid_transitions ==
            Cardinality({i \in 1..Len(transitions) : transitions[i].kind = "scored"})
        total_score == SumScores(transitions)
    IN  Append(transitions,
               [Entry(IF valid_transitions > 0 THEN "summary" ELSE "summary no valid", 0)
                  EXCEPT !.score = total_score,
                         !.valid_transitions = valid_transitions,
                         !.total_transitions = Len(sorted_ids) - 1])

get_transition_analysis(sorted_ids) ==
    /\ ret' = GetTransitionAnalysis(tracks_data, camelot_map, sorted_ids)
    /\ log' = IF ret' = <<>> THEN <<"no track data">> ELSE <<>>
    /\ call' = Call("get_transition_analysis", sorted_ids, NoSuchId, FALSE)
    /\ trace' = NoTrace
    /\ UNCHANGED <<tracks_data, original_track_order, camelot_map, memo, loaded>>
    /\ UNCHANGED outside

Analyze == \E sorted_ids \in ArgLists : get_transition_analysis(sorted_ids)

\* ------------------------------------------------------------------------
\* What lies outside the sorter: the playlists on Spotify that self.sp
\* reaches, and the session of the app.  Spec, SpecEarly and SpecPure are
\* about the sorter alone and leave both as they are at the start.
\* ------------------------------------------------------------------------
PlaylistIds == {1, 2}
FirstPlaylist == 1
NoPlaylist == 0        \* st.session_state.playlist_id = None

NoPlaylists == [pid \in PlaylistIds |-> <<>>]

NoFrame == [isNone |-> TRUE, rows |-> <<>>]
NoSorter == [isNone |-> TRUE, playlist_id |-> NoPlaylist,
             tracks_data |-> NoFrame,
             original_track_order |-> [isNone |-> TRUE, ids |-> <<>>]]

\* lines 113-132 of app.py
NoSession ==
    [playlist_id |-> NoPlaylist,
     tracks_data |-> NoFrame,
     sorter |-> NoSorter,
     sorted_ids |-> [isNone |-> TRUE, ids |-> <<>>],
     anchor_track_id |-> NoSuchId,
     original_df |-> NoFrame,
     sorted_df |-> NoFrame,
     transitions |-> [isNone |-> TRUE, entries |-> <<>>]]

\* ------------------------------------------------------------------------
\* __init__
\* ------------------------------------------------------------------------
Init ==
    /\ tracks_data = [isNone |-> TRUE, rows |-> <<>>]
    /\ original_track_order = [isNone |-> TRUE, ids |-> <<>>]
    /\ camelot_map = _build_camelot_map
    /\ call = Call("__init__", <<>>, NoSuchId, FALSE)
    /\ ret = <<>>
    /\ log = <<>>
    /\ trace = NoTrace
    /\ memo = NoMemo
    /\ loaded = [data |-> tracks_data, order |-> original_track_order]
    /\ playlist_id = FirstPlaylist
    /\ sp_playlist = NoPlaylists
    /\ session = NoSession

\* app.py builds a new sorter for every load
Construct ==
    /\ call.op # "__init__"
    /\ tracks_data' = [isNone |-> TRUE, rows |-> <<>>]
    /\ original_track_order' = [isNone |-> TRUE, ids |-> <<>>]
    /\ camelot_map' = _build_camelot_map
    /\ call' = Call("__init__", <<>>, NoSuchId, FALSE)
    /\ ret' = <<>>
    /\ log' = <<>>
    /\ trace' = NoTrace
    /\ memo' = NoMemo
    /\ loaded' = [data |-> tracks_data', order |-> original_track_order']
    /\ UNCHANGED outside

Next ==
    \/ Construct
    \/ Load
    \/ Sort
    \/ Compare
    \/ Analyze

Spec == Init /\ [][Next]_vars

NextEarly ==
    \/ Next
    \/ SortEarly

SpecEarly == Init /\ [][NextEarly]_vars

\* ------------------------------------------------------------------------
\* calculate_transition_score and get_transition_analysis as functions of
\* arbitrary track records: the two records are drawn from bounded key, BPM
\* and energy domains, absent fields and an unrecognized key included, which
\* load_playlist would have removed.
\* ------------------------------------------------------------------------
RecordKeys == {<<8, "A">>, <<9, "A">>, <<2, "B">>, <<13, "A">>, NaNKey}
RecordBPMs == {100, 103, 120, 125, NaN}
RecordEnergies == {10, 20, 50, 100, NaN}     \* hundredths, within [0, 1]

Records(id) ==
    {[id |-> id, Camelot |-> k, BPM |-> b, Energy |-> e] :
        k \in RecordKeys, b \in RecordBPMs, e \in RecordEnergies}

InitPure ==
    /\ \E track1 \in Records(1) : \E track2 \in Records(2) :
           tracks_data = [isNone |-> FALSE, rows |-> <<track1, track2>>]
    /\ original_track_order = [isNone |-> FALSE, ids |-> <<1, 2>>]
    /\ camelot_map = _build_camelot_map
    /\ call = Call("__init__", <<>>, NoSuchId, FALSE)
    /\ ret = <<>>
    /\ log = <<>>
    /\ trace = NoTrace
    /\ memo = NoMemo
    /\ loaded = [data |-> tracks_data, order |-> original_track_order]
    /\ playlist_id = FirstPlaylist
    /\ sp_playlist = NoPlaylists
    /\ session = NoSession

\* one call of calculate_transition_score; trace keeps the locals of the call
score_call(track1, track2) ==
    /\ ret' = calculate_transition_score(camelot_map, track1, track2)
    /\ trace' = [key_compatible |->
                     key_compatible(camelot_map, track1.Camelot, track2.Camelot),
                 key_multiplier |->
                     key_multiplier(camelot_map, track1.Camelot, track2.Camelot),
                 bpm_diff |-> bpm_diff(track1.BPM, track2.BPM),
                 bpm_score |-> bpm_score(track1.BPM, track2.BPM),
                 energy_score |-> energy_score(track1.Energy, track2.Energy),
                 base_score |-> base_score(track1, track2)]
    /\ call' = Call("calculate_transition_score", <<track1.id, track2.id>>,
                    NoSuchId, FALSE)
    /\ log' = <<>>
    /\ UNCHANGED <<tracks_data, original_track_order, camelot_map, memo, loaded>>
    /\ UNCHANGED outside

ScorePair ==
    /\ ~tracks_data.isNone
    /\ \E i \in 1..Len(tracks_data.rows) : \E j \in 1..Len(tracks_data.rows) :
           i # j /\ score_call(tracks_data.rows[i], tracks_data.rows[j])

NextPure ==
    \/ ScorePair
    \/ Analyze

SpecPure == InitPure /\ [][NextPure]_vars

\* ------------------------------------------------------------------------
\* _get_track_uris and update_spotify_playlist.  What the calls on self.sp
\* do is chosen by the caller of the action: lost says which sp.tracks
\* batches raise and which ids come back without a URI, fail_at says which
\* playlist call raises (0: none).  A call that raises leaves the playlist
\* as it was.
\* ------------------------------------------------------------------------
\* the URI of a track is "spotify:track:" followed by its id; the prefix is
\* the offset UriPrefix, so that a URI is never an id
UriPrefix == 1000
uri(id) == UriPrefix + id

track_id(u) == u - UriPrefix

UriBatch == 50         \* ids per sp.tracks call
ItemBatch == 100       \* URIs per playlist call

Min(a, b) == IF a < b THEN a ELSE b

\* the slice starts one item early
slice_overlap(list, i, size) == SubSeq(list, Max(i, 1), Min(i + size, Len(list)))

\* list[i:i+size], i counting from 0
slice(list, i, size) == SubSeq(list, i + 1, Min(i + size, Len(list)))

\* range(start, n, step)
range(start, n, step) ==
    {i \in {start + k * step : k \in 0..(n \div step)} : i < n}

\* lines 470-489: the map from id to URI, here a function
_get_track_uris(track_ids, lost) ==
    LET fetched == range(0, Len(track_ids), UriBatch) \ lost.raising
        returned == UNION {SeqToSet(slice(track_ids, i, UriBatch)) : i \in fetched}
        found == returned \ (lost.no_uri \cup {NoSuchId})
    IN  [id \in found |-> uri(id)]

\* lines 515-519: the calls on self.sp in the order they are issued
playlist_calls(track_uris) ==
    <<[op |-> "playlist_replace_items", items |-> slice(track_uris, 0, ItemBatch)]>>
        \o [k \in 1..Cardinality(range(ItemBatch, Len(track_uris), ItemBatch)) |->
                [op |-> "playlist_add_items",
                 items |-> slice(track_uris, k * ItemBatch, ItemBatch)]]

\* Spotify: replace sets the items of the playlist, add appends to them
RECURSIVE sp_apply(_, _)
sp_apply(items, calls) ==
    IF Len(calls) = 0 THEN items
    ELSE sp_apply(IF Head(calls).op = "playlist_replace_items"
                  THEN Head(calls).items
                  ELSE items \o Head(calls).items,
                  Tail(calls))

NoUpdateTrace == [calls |-> <<>>, raised |-> FALSE]

Failure(message) == [ok |-> FALSE, message |-> message]

\* line 502: [uri_map[track_id] for track_id in sorted_ids if track_id in uri_map]
track_uris_of(with_uri, uri_map) ==
    [i \in 1..Len(with_uri) |-> uri_map[with_uri[i]]]

with_uri_of(sorted_ids, known) == SelectSeq(sorted_ids, LAMBDA id : id \in known)

\* lines 514-531: the calls are issued until one raises
send_calls(items, calls, fail_at, all_found) ==
    [ret |-> IF fail_at \in 1..Len(calls) THEN Failure("Failed to update playlist")
             ELSE [ok |-> TRUE, message |-> "Successfully updated playlist"],
     items |-> sp_apply(items, IF fail_at \in 1..Len(calls)
                               THEN SubSeq(calls, 1, fail_at - 1) ELSE calls),
     log |-> (IF all_found THEN <<>> ELSE <<"could only find some URIs">>)
             \o (IF fail_at \in 1..Len(calls) THEN <<"failed to update">>
                 ELSE <<"successfully updated">>),
     trace |-> [calls |-> IF fail_at \in 1..Len(calls)
                          THEN SubSeq(calls, 1, fail_at - 1) ELSE calls,
                raised |-> fail_at \in 1..Len(calls)]]

\* lines 502-512
update_with(items, sorted_ids, track_uris, fail_at) ==
    IF Len(track_uris) = 0
    THEN [ret |-> Failure("No valid track URIs could be fetched"), items |-> items,
          log |-> <<"no valid track uris">>, trace |-> NoUpdateTrace]
    ELSE send_calls(items, playlist_calls(track_uris), fail_at,
                    Len(track_uris) = Len(sorted_ids))

fetch_and_update(items, sorted_ids, uri_map, fail_at) ==
    update_with(items, sorted_ids,
                track_uris_of(with_uri_of(sorted_ids, DOMAIN uri_map), uri_map),
                fail_at)

\* the whole method: [ret, items, log, trace], items being the playlist
\* after the call
UpdateSpotifyPlaylist(data, items, sorted_ids, lost, fail_at) ==
    IF Len(sorted_ids) = 0
    THEN [ret |-> Failure("No sorted track IDs provided"), items |-> items,
          log |-> <<"no sorted track ids">>, trace |-> NoUpdateTrace]
    ELSE IF data.isNone \/ Len(data.rows) = 0
    THEN [ret |-> Failure("No track data available"), items |-> items,
          log |-> <<"no track data">>, trace |-> NoUpdateTrace]
    ELSE fetch_and_update(items, sorted_ids, _get_track_uris(sorted_ids, lost), fail_at)

update_spotify_playlist(sorted_ids, lost, fail_at) ==
    \E r \in {UpdateSpotifyPlaylist(tracks_data, sp_playlist[playlist_id],
                                     sorted_ids, lost, fail_at)} :
        /\ ret' = r.ret
        /\ log' = r.log
        /\ trace' = r.trace
        /\ call' = Call("update_spotify_playlist", sorted_ids, NoSuchId, FALSE)
        /\ sp_playlist' = [sp_playlist EXCEPT ![playlist_id] = r.items]
        /\ UNCHANGED <<tracks_data, original_track_order, camelot_map, memo, loaded,
                       playlist_id, session>>

LongLen == 250         \* a list that needs three playlist calls
LongIds == [i \in 1..LongLen |-> i]

UpdateLists ==
    {<<>>, <<NoSuchId, 1>>, LongIds} \cup (IF memo.set THEN {memo.ret} ELSE {})

LostOptions ==
    {[raising |-> {}, no_uri |-> {}],
     [raising |-> {}, no_uri |-> {2}],
     [raising |-> {0}, no_uri |-> {}]}

FailAt == 0..3

\* explored for playlists of at most MaxLen items
Update ==
    /\ Len(sp_playlist[playlist_id]) <= MaxLen
    /\ \E sorted_ids \in UpdateLists : \E lost \in LostOptions : \E fail_at \in FailAt :
           update_spotify_playlist(sorted_ids, lost, fail_at)

\* the playlists the sorter is built for: tracks of the catalogue, no track
\* twice
PlaylistTracks == {1, 2, 5}

Playlists ==
    {[i \in 1..Len(t) |-> uri(t[i].id)] :
        t \in {u \in ScrapedTables : \A i \in 1..Len(u) : u[i].id \in PlaylistTracks}}

InitUpdate ==
    /\ tracks_data = [isNone |-> TRUE, rows |-> <<>>]
    /\ original_track_order = [isNone |-> TRUE, ids |-> <<>>]
    /\ camelot_map = _build_camelot_map
    /\ call = Call("__init__", <<>>, NoSuchId, FALSE)
    /\ ret = <<>>
    /\ log = <<>>
    /\ trace = NoTrace
    /\ memo = NoMemo
    /\ loaded = [data |-> tracks_data, order |-> original_track_order]
    /\ playlist_id = FirstPlaylist
    /\ \E items \in Playlists :
           sp_playlist = [NoPlaylists EXCEPT ![FirstPlaylist] = items]
    /\ session = NoSession

\* the page songdata.io serves for a playlist lists its tracks in playlist
\* order
PlaylistPage(items) ==
    [ok |-> TRUE, rows |-> [i \in 1..Len(items) |-> Catalogue[track_id(items[i])]]]

\* load_playlist of the playlist as it is on Spotify, or a request that fails
LoadRemote ==
    /\ tracks_data.isNone
    /\ sp_playlist[playlist_id] \in Playlists
    /\ \E page \in {PlaylistPage(sp_playlist[playlist_id]),
                     [ok |-> FALSE, rows |-> <<>>]} : load_playlist(page)

NextUpdate ==
    \/ Construct
    \/ LoadRemote
    \/ Sort
    \/ Update

SpecUpdate == InitUpdate /\ [][NextUpdate]_vars

\* ------------------------------------------------------------------------
\* the Streamlit page (app.py): one action per script run, started by one
\* widget.  The method calls run on the sorter kept in the session, so the
\* variables of self take its state.
\* ------------------------------------------------------------------------
Frame(rows) == [isNone |-> FALSE, rows |-> rows]

\* the selectbox changes: lines 165-173 clear the session
SelectPlaylist(selected) ==
    /\ selected # session.playlist_id
    /\ session' = [NoSession EXCEPT !.playlist_id = selected]
    /\ UNCHANGED <<tracks_data, original_track_order, camelot_map, call, ret, log,
                   trace, memo, loaded, playlist_id, sp_playlist>>

\* "Load Playlist Data", lines 175-186: a new sorter loads the selected
\* playlist; the session takes it and its data only when the load gave rows.
\* The page then shows the anchor selectbox, whose value line 273 stores.
ClickLoad(page) ==
    \E r \in {LoadPlaylist(page)} :
        /\ playlist_id' = session.playlist_id
        /\ tracks_data' = r.data
        /\ original_track_order' = r.order
        /\ camelot_map' = _build_camelot_map
        /\ ret' = r.ret
        /\ log' = r.log
        /\ call' = Call("load_playlist", <<>>, NoSuchId, FALSE)
        /\ trace' = NoTrace
        /\ memo' = NoMemo
        /\ loaded' = [data |-> r.data, order |-> r.order]
        /\ IF ~r.ret.isNone /\ Len(r.ret.rows) > 0
           THEN \E anchor_track_id \in SeqToSet(ids_of(r.ret.rows)) :
                    session' = [session EXCEPT
                                  !.tracks_data = r.ret,
                                  !.sorter = [isNone |-> FALSE,
                                              playlist_id |-> session.playlist_id,
                                              tracks_data |-> r.data,
                                              original_track_order |-> r.order],
                                  !.anchor_track_id = anchor_track_id]
           ELSE session' = session
        /\ UNCHANGED sp_playlist

\* "Sort Playlist", lines 277-296: sort, then compare and analyse when the
\* result is not empty
ClickSort(anchor_track_id) ==
    LET self == session.sorter
    IN  \E r \in {SortPlaylist(self.tracks_data, self.original_track_order,
                               _build_camelot_map, anchor_track_id, NoCutoff)} :
            /\ playlist_id' = self.playlist_id
            /\ tracks_data' = self.tracks_data
            /\ original_track_order' = self.original_track_order
            /\ camelot_map' = _build_camelot_map
            /\ loaded' = [data |-> self.tracks_data, order |-> self.original_track_order]
            /\ memo' = [set |-> TRUE, anchor |-> anchor_track_id, ret |-> r.ret]
            /\ IF r.ret # <<>>
               THEN \E frames \in {ComparePlaylists(self.tracks_data,
                                       self.original_track_order, r.ret)} :
                    \E transitions \in {GetTransitionAnalysis(self.tracks_data,
                                            _build_camelot_map, r.ret)} :
                        /\ session' = [session EXCEPT
                                         !.anchor_track_id = anchor_track_id,
                                         !.sorted_ids = [isNone |-> FALSE, ids |-> r.ret],
                                         !.original_df = Frame(frames[1]),
                                         !.sorted_df = Frame(frames[2]),
                                         !.transitions = [isNone |-> FALSE,
                                                          entries |-> transitions]]
                        /\ ret' = transitions
                        /\ log' = r.log
                        /\ call' = Call("get_transition_analysis", r.ret, NoSuchId, FALSE)
                        /\ trace' = NoTrace
               ELSE /\ session' = [session EXCEPT !.anchor_track_id = anchor_track_id]
                    /\ ret' = r.ret
                    /\ log' = r.log
                    /\ call' = Call("sort_playlist", <<>>, anchor_track_id, FALSE)
                    /\ trace' = r.trace
            /\ UNCHANGED sp_playlist

\* "Update Playlist on Spotify", lines 392-394
ClickUpdate(lost, fail_at) ==
    LET self == session.sorter
    IN  \E r \in {UpdateSpotifyPlaylist(self.tracks_data, sp_playlist[self.playlist_id],
                                        session.sorted_ids.ids, lost, fail_at)} :
            /\ playlist_id' = self.playlist_id
            /\ tracks_data' = self.tracks_data
            /\ original_track_order' = self.original_track_order
            /\ camelot_map' = _build_camelot_map
            /\ loaded' = [data |-> self.tracks_data, order |-> self.original_track_order]
            /\ ret' = r.ret
            /\ log' = r.log
            /\ trace' = r.trace
            /\ call' = Call("update_spotify_playlist", session.sorted_ids.ids, NoSuchId, FALSE)
            /\ sp_playlist' = [sp_playlist EXCEPT ![self.playlist_id] = r.items]
            /\ UNCHANGED <<memo, session>>

\* line 243: the sorting section shows once data and sorter are in the session
SectionShown == ~session.tracks_data.isNone /\ ~session.sorter.isNone

\* line 299: the results and the update button show once a sort is stored
ResultsShown ==
    /\ SectionShown
    /\ ~session.sorted_ids.isNone /\ Len(session.sorted_ids.ids) > 0
    /\ ~session.original_df.isNone
    /\ ~session.sorted_df.isNone

Select == \E selected \in PlaylistIds : SelectPlaylist(selected)

LoadClicked ==
    /\ session.playlist_id # NoPlaylist
    /\ \E page \in {PlaylistPage(sp_playlist[session.playlist_id]),
                    [ok |-> FALSE, rows |-> <<>>]} : ClickLoad(page)

SortClicked ==
    /\ SectionShown
    /\ \E anchor_track_id \in SeqToSet(ids_of(session.tracks_data.rows)) :
           ClickSort(anchor_track_id)

UpdateClicked ==
    /\ ResultsShown
    /\ \E lost \in LostOptions : \E fail_at \in FailAt : ClickUpdate(lost, fail_at)

\* the user's playlists when the page opens
AppPlaylists == {p \in Playlists : Len(p) >= 2}

InitApp ==
    /\ tracks_data = [isNone |-> TRUE, rows |-> <<>>]
    /\ original_track_order = [isNone |-> TRUE, ids |-> <<>>]
    /\ camelot_map = _build_camelot_map
    /\ call = Call("__init__", <<>>, NoSuchId, FALSE)
    /\ ret = <<>>
    /\ log = <<>>
    /\ trace = NoTrace
    /\ memo = NoMemo
    /\ loaded = [data |-> tracks_data, order |-> original_track_order]
    /\ playlist_id = FirstPlaylist
    /\ \E first \in AppPlaylists :
           sp_playlist = [pid \in PlaylistIds |->
                             IF pid = FirstPlaylist THEN first ELSE <<uri(2), uri(1)>>]
    /\ session = NoSession

NextApp == Select \/ LoadClicked \/ SortClicked \/ UpdateClicked

SpecApp == InitApp /\ [][NextApp]_vars

\* ------------------------------------------------------------------------
\* Properties
\* ------------------------------------------------------------------------
IsSortCall == call.op = "sort_playlist"

Rows == tracks_data.rows

EligibleIds == SeqToSet(ids_of(Rows))

OriginalIds == SeqToSet(original_track_order.ids)

Row(id) == CHOOSE r \in SeqToSet(Rows) : r.id = id

Score(id1, id2) == calculate_transition_score(camelot_map, Row(id1), Row(id2))

Occurrences(list, x) == Cardinality({i \in 1..Len(list) : list[i] = x})

\* position of the first occurrence of x in list
PosIn(list, x) == CHOOSE p \in 1..Len(list) : list[p] = x /\ \A q \in 1..(p - 1) : list[q] # x

IsPermutationOfEligible(list) ==
    /\ Len(list) = Len(Rows)
    /\ \A id \in EligibleIds : Occurrences(list, id) = 1

ValidAnchor == ~tracks_data.isNone /\ call.anchor \in EligibleIds

\* C1: for eligible tracks with pairwise distinct ids and an anchor among
\* them, sort_playlist returns every eligible id exactly once, as many ids as
\* there are eligible tracks, and the anchor first.
C1_Permutation ==
    (IsSortCall /\ DistinctIds(Rows) /\ ValidAnchor) =>
        /\ IsPermutationOfEligible(ret)
        /\ ret[1] = call.anchor

C1_Witness ==
    /\ IsSortCall /\ ValidAnchor
    /\ Len(Rows) >= 3
    /\ call.anchor # Rows[1].id

\* C2: at every position i >= 2 of the returned ordering stands a track whose
\* score from the track before it is the maximum over all tracks standing at
\* position i or later.
C2_GreedyChoice ==
    (IsSortCall /\ ValidAnchor) =>
        \A i \in 2..Len(ret) : \A j \in i..Len(ret) :
            Score(ret[i - 1], ret[j]) <= Score(ret[i - 1], ret[i])

C2_Witness ==
    /\ IsSortCall /\ ValidAnchor
    /\ Len(ret) >= 3
    /\ Score(ret[1], ret[3]) < Score(ret[1], ret[2])
    /\ PosIn(ids_of(Rows), ret[3]) < PosIn(ids_of(Rows), ret[2])

\* the ids of the rows of tracks_data, in row order, that are not among the
\* first k ids of the result
Unplaced(k) ==
    SelectSeq(ids_of(Rows), LAMBDA tid : tid \notin SeqToSet(SubSeq(ret, 1, k)))

\* C3: among the remaining tracks that share the maximum score, sort_playlist
\* takes the one that comes first in the row order of tracks_data; the
\* remaining tracks keep that row order through every removal.
C3_TieBreakInputOrder ==
    (IsSortCall /\ ValidAnchor) =>
        /\ Len(trace.rems) = Len(ret)
        /\ \A k \in 1..Len(ret) : trace.rems[k] = Unplaced(k)
        /\ \A i \in 2..Len(ret) : \A j \in (i + 1)..Len(ret) :
               Score(ret[i - 1], ret[j]) = Score(ret[i - 1], ret[i])
                   => PosIn(ids_of(Rows), ret[i]) < PosIn(ids_of(Rows), ret[j])

C3_Witness ==
    /\ IsSortCall /\ ValidAnchor
    /\ Len(ret) >= 3
    /\ Score(ret[1], ret[2]) = Score(ret[1], ret[3])
    /\ ret[2] > ret[3]

RowA == [id |-> 1, Camelot |-> <<8, "A">>, BPM |-> 120, Energy |-> 50]
RowB == [id |-> 2, Camelot |-> <<9, "A">>, BPM |-> 122, Energy |-> 60]
RowC == [id |-> 3, Camelot |-> <<2, "B">>, BPM |-> 180, Energy |-> 10]

\* C4: with A{8A, 120, 0.5}, B{9A, 122, 0.6}, C{2B, 180, 0.1} loaded in the
\* order A, B, C, sort_playlist with anchor A returns [A, B, C].
C4_Scenario ==
    (IsSortCall /\ Rows = <<RowA, RowB, RowC>> /\ call.anchor = 1) =>
        ret = <<1, 2, 3>>

C4_Witness ==
    /\ IsSortCall /\ Rows = <<RowA, RowB, RowC>> /\ call.anchor = 1
    /\ trace.iters = 2
    /\ Score(1, 2) = 303600 /\ Score(1, 3) = 16000

\* C5: every run of sort_playlist returns what the sort yields on the data
\* as load_playlist left it, whatever calls were made since; so two runs on
\* the same collection with the same anchor return the same sequence.
C5_Deterministic ==
    IsSortCall =>
        ret = SortPlaylist(loaded.data, loaded.order, _build_camelot_map,
                           call.anchor, NoCutoff).ret

C5_Witness ==
    /\ IsSortCall /\ call.rerun
    /\ Len(ret) >= 3
    /\ Score(ret[1], ret[2]) = Score(ret[1], ret[3])

\* C6: with no track data, or an anchor that is not the id of an eligible
\* track, sort_playlist returns the empty sequence and performs no greedy
\* step.
C6_InvalidAnchorEmpty ==
    (IsSortCall /\ ~ValidAnchor) =>
        /\ ret = <<>>
        /\ trace = NoTrace

C6_Witness ==
    /\ IsSortCall
    /\ Len(Rows) >= 2
    /\ ~ValidAnchor
    /\ Len(original_track_order.ids) > Len(Rows)
    /\ call.anchor = original_track_order.ids[1]

FilteredAnchor ==
    /\ IsSortCall
    /\ Len(Rows) > 0
    /\ call.anchor \notin EligibleIds
    /\ call.anchor \in OriginalIds

\* C7 as stated: for an anchor that was filtered out, sort_playlist gives its
\* caller an outcome different from the one it gives for an anchor that never
\* existed.
C7_OutcomeDistinguishes ==
    FilteredAnchor =>
        ret # SortPlaylist(tracks_data, original_track_order, camelot_map,
                           NoSuchId, NoCutoff).ret

\* C7 amended: for an anchor absent from non-empty track data sort_playlist
\* returns the empty sequence in both cases; the cases differ only in the
\* log, which holds the filtered-out warning exactly when the anchor is in
\* original_track_order.
C7_LogDistinguishes ==
    (IsSortCall /\ Len(Rows) > 0 /\ call.anchor \notin EligibleIds) =>
        /\ ret = <<>>
        /\ InList("anchor filtered out", log) <=> call.anchor \in OriginalIds

C7_Witness ==
    /\ FilteredAnchor
    /\ log = <<"start track not found", "anchor filtered out">>

\* C8: when the greedy loop stops early, the eligible ids not yet placed
\* follow the placed ones, each once, in the order they have in
\* original_track_order, and the result is a permutation of the eligible ids.
C8_FallbackAppend ==
    (IsSortCall /\ trace.stopped) =>
        LET placed == SubSeq(ret, 1, trace.iters)
            rest == SubSeq(ret, trace.iters + 1, Len(ret))
        IN  /\ SeqToSet(rest) = EligibleIds \ SeqToSet(placed)
            /\ \A id \in SeqToSet(rest) : Occurrences(rest, id) = 1
            /\ \A i, j \in 1..Len(rest) :
                   i < j => PosIn(original_track_order.ids, rest[i])
                                < PosIn(original_track_order.ids, rest[j])
            /\ IsPermutationOfEligible(ret)

C8_Witness ==
    /\ IsSortCall /\ trace.stopped
    /\ Len(ret) >= trace.iters + 2
    /\ ret[trace.iters + 1] > ret[trace.iters + 2]

\* C9: a call of sort_playlist, compare_playlists or get_transition_analysis
\* leaves tracks_data, original_track_order and camelot_map as they were.
C9_Frame ==
    [][call'.op \in {"sort_playlist", "compare_playlists", "get_transition_analysis"}
          => UNCHANGED <<tracks_data, original_track_order, camelot_map>>]_vars

C9_Witness ==
    /\ call.op = "compare_playlists"
    /\ ret = EmptyFrames
    /\ Len(Rows) > 0
    /\ memo.set /\ Len(memo.ret) >= 2

AllKeys == (1..12) \X {"A", "B"}

\* C10: the table has exactly the 24 keys; nL maps to three pairwise distinct
\* neighbours: n with the other letter, (n-1)L and (n+1)L on the circle 1..12;
\* every neighbour is a key and no key is its own neighbour.
C10_CamelotTable ==
    /\ DOMAIN camelot_map = AllKeys
    /\ \A k \in AllKeys :
          LET n == k[1]
              L == k[2]
              M == IF L = "A" THEN "B" ELSE "A"
              nb == camelot_map[k]
          IN  /\ Len(nb) = 3
              /\ SeqToSet(nb) = {<<n, M>>, <<((n + 10) % 12) + 1, L>>, <<(n % 12) + 1, L>>}
              /\ Cardinality(SeqToSet(nb)) = 3
              /\ SeqToSet(nb) \subseteq AllKeys
              /\ k \notin SeqToSet(nb)

C10_Witness ==
    /\ camelot_map[<<1, "A">>] = << <<1, "B">>, <<12, "A">>, <<2, "A">> >>
    /\ camelot_map[<<12, "B">>] = << <<12, "A">>, <<11, "B">>, <<1, "B">> >>
    /\ IsSortCall /\ Len(ret) >= 2

\* C11: the adjacency of the table is symmetric: k2 is a neighbour of k1
\* exactly when k1 is a neighbour of k2, for the letter swap and for the
\* numeric neighbours with the wrap between 12 and 1.
C11_AdjacencySymmetric ==
    \A k1 \in DOMAIN camelot_map : \A k2 \in DOMAIN camelot_map :
        InList(k2, camelot_map[k1]) <=> InList(k1, camelot_map[k2])

C11_Witness ==
    /\ InList(<<1, "A">>, camelot_map[<<12, "A">>])
    /\ InList(<<12, "A">>, camelot_map[<<1, "A">>])
    /\ InList(<<5, "B">>, camelot_map[<<5, "A">>])
    /\ InList(<<5, "A">>, camelot_map[<<5, "B">>])
    /\ call.op = "load_playlist"

\* the two records of the last calculate_transition_score call
IsScoreCall == call.op = "calculate_transition_score"
Track1 == Row(call.arg[1])
Track2 == Row(call.arg[2])

\* C12: a transition between two tracks of the same recognized key scores
\* higher than the transition to a merely compatible key with the same BPMs
\* and energies, and with bpm_diff <= 3 it carries both x1.1 bonuses on top
\* of the multiplier of its key relation.
C12_IdenticalKeyBonus ==
    (/\ IsScoreCall
     /\ Track1.Camelot = Track2.Camelot
     /\ Track1.Camelot \in DOMAIN camelot_map
     /\ trace.base_score > 0)
    => /\ \A k \in SeqToSet(camelot_map[Track1.Camelot]) :
              ret > calculate_transition_score(camelot_map, Track1,
                                               [Track2 EXCEPT !.Camelot = k])
       /\ trace.bpm_diff <= 3
              => ret = trace.base_score * trace.key_multiplier * 11 * 11

\* C13: with both BPMs present bpm_score is max(0, 1 - |bpm1 - bpm2| / 20):
\* 1 at difference 0, strictly decreasing down to 0 at difference 20,
\* exactly 0 above 20, never increasing in the difference; the final score
\* is never negative.
C13_BpmScore ==
    IsScoreCall =>
        /\ ret >= 0
        /\ (~isna(Track1.BPM) /\ ~isna(Track2.BPM)) =>
              LET d == Abs(Track1.BPM - Track2.BPM)
              IN  /\ trace.bpm_score = (IF d <= 20 THEN 20 - d ELSE 0)
                  /\ trace.bpm_score >= 0
                  /\ \A b \in RecordBPMs \ {NaN} :
                        LET d2 == Abs(Track1.BPM - b)
                        IN  /\ d2 >= d => bpm_score(Track1.BPM, b) <= trace.bpm_score
                            /\ (d2 > d /\ d2 <= 20)
                                  => bpm_score(Track1.BPM, b) < trace.bpm_score

C13_Witness ==
    /\ IsScoreCall
    /\ ~isna(Track1.BPM) /\ ~isna(Track2.BPM)
    /\ Abs(Track1.BPM - Track2.BPM) > 20
    /\ trace.bpm_score = 0
    /\ ret > 0

\* the same two tracks with their energies exchanged: the transition that
\* differs only in the direction of the energy change
SwappedEnergyScore ==
    calculate_transition_score(camelot_map,
                               [Track1 EXCEPT !.Energy = Track2.Energy],
                               [Track2 EXCEPT !.Energy = Track1.Energy])

\* C14: with keys and BPMs the same on both sides, a rise of energy by
\* d > 0.1 scores strictly higher than a drop by d; the rise costs 0.5 per
\* unit, the drop 1.5 per unit, both floored at 0.
C14_EnergyAsymmetry ==
    (IsScoreCall /\ ~isna(Track1.Energy) /\ ~isna(Track2.Energy)) =>
        LET d == Abs(Track2.Energy - Track1.Energy)
        IN  /\ Track2.Energy - Track1.Energy > 10 =>
                  /\ trace.energy_score = Max(0, 200 - d)
                  /\ ret > SwappedEnergyScore
            /\ Track2.Energy - Track1.Energy < -10 =>
                  /\ trace.energy_score = Max(0, 200 - 3 * d)
                  /\ ret < SwappedEnergyScore

C14_Witness ==
    /\ IsScoreCall
    /\ Track1.Energy = 20 /\ Track2.Energy = 50
    /\ trace.energy_score = 170
    /\ ret > SwappedEnergyScore
    /\ SwappedEnergyScore > 0

\* the transition in the opposite direction
ReverseScore == calculate_transition_score(camelot_map, Track2, Track1)

RefCompatible(a, b) ==
    /\ a.Camelot # NaNKey
    /\ b.Camelot # NaNKey
    /\ a.Camelot \in AllKeys
    /\ b.Camelot \in {<<a.Camelot[1], other_letter(a.Camelot[2])>>,
                      <<IF a.Camelot[1] = 1 THEN 12 ELSE a.Camelot[1] - 1, a.Camelot[2]>>,
                      <<IF a.Camelot[1] = 12 THEN 1 ELSE a.Camelot[1] + 1, a.Camelot[2]>>}

RefBpmMissing(a, b) == a.BPM = NaN \/ b.BPM = NaN

RefBpmScore(a, b) ==
    IF RefBpmMissing(a, b) THEN 0
    ELSE IF Abs(a.BPM - b.BPM) >= 20 THEN 0 ELSE 20 - Abs(a.BPM - b.BPM)

RefEnergyScore(a, b) ==
    IF a.Energy = NaN \/ b.Energy = NaN THEN 100
    ELSE IF b.Energy - a.Energy >= -10
    THEN (IF Abs(b.Energy - a.Energy) >= 200 THEN 0 ELSE 200 - Abs(b.Energy - a.Energy))
    ELSE (IF 3 * Abs(b.Energy - a.Energy) >= 200 THEN 0
          ELSE 200 - 3 * Abs(b.Energy - a.Energy))

\* 0.6 of a term in 1/20ths plus 0.4 of a term in 1/200ths
RefBase(a, b) == 30 * RefBpmScore(a, b) + 2 * RefEnergyScore(a, b)

RefScore(a, b) ==
    RefBase(a, b)
        * (IF RefCompatible(a, b) THEN 3 ELSE 1)
        * (IF RefCompatible(a, b) /\ a.Camelot = b.Camelot THEN 11 ELSE 10)
        * (IF ~RefBpmMissing(a, b) /\ Abs(a.BPM - b.BPM) <= 3 THEN 11 ELSE 10)

\* C16: for every pair of records of the bounded domains, absent fields and
\* unrecognized keys included, calculate_transition_score returns the value
\* of the reference definition, and its key, BPM, energy and base terms are
\* those of the reference.
C16_MatchesReference ==
    IsScoreCall =>
        /\ ret = RefScore(Track1, Track2)
        /\ trace.key_multiplier = (IF RefCompatible(Track1, Track2) THEN 3 ELSE 1)
        /\ trace.bpm_score = RefBpmScore(Track1, Track2)
        /\ trace.energy_score = RefEnergyScore(Track1, Track2)
        /\ trace.base_score = RefBase(Track1, Track2)

C16_Witness ==
    /\ IsScoreCall
    /\ Track1.Camelot = <<13, "A">>
    /\ Track2.Camelot \in AllKeys
    /\ isna(Track2.BPM) /\ ~isna(Track1.BPM)
    /\ isna(Track1.Energy)
    /\ ret = 20000

\* the scraped row of this id lacks a valid key, a numeric BPM or a numeric
\* energy, read off the page
ScrapedIncomplete(id) ==
    \/ <<Catalogue[id].Camelot[1],
         IF Catalogue[id].Camelot[2] = "a" THEN "A"
         ELSE IF Catalogue[id].Camelot[2] = "b" THEN "B"
         ELSE Catalogue[id].Camelot[2]>> \notin AllKeys
    \/ Catalogue[id].BPM[1] # "num"
    \/ Catalogue[id].Energy[1] # "num"

UpstreamEnergy(id) == Catalogue[id].Energy[2]

\* C18: every upstream energy above 1.0 is divided by 10 before it is used,
\* and with upstream energies within [0, 10] every energy of a track that
\* can be scored lies within [0, 1].
C18_EnergyNormalized ==
    ~tracks_data.isNone =>
        \A i \in 1..Len(Rows) :
            /\ UpstreamEnergy(Rows[i].id) > 100
                   => Rows[i].Energy * 10 = UpstreamEnergy(Rows[i].id)
            /\ UpstreamEnergy(Rows[i].id) \in 0..1000
                   => Rows[i].Energy \in 0..100

C18_Witness ==
    /\ IsSortCall
    /\ Len(ret) >= 2
    /\ \E i \in 1..Len(Rows) :
          /\ UpstreamEnergy(Rows[i].id) = 700
          /\ Rows[i].Energy = 70
          /\ InList(Rows[i].id, ret)

IsAnalysisCall == call.op = "get_transition_analysis"

\* C19 as stated: get_transition_analysis called with fewer than 2 ids
\* returns exactly one entry, the 'not enough tracks' message.
C19_AlwaysNotEnoughTracks ==
    (IsAnalysisCall /\ Len(call.arg) < 2)
        => Len(ret) = 1 /\ ret[1].kind = "not enough tracks"

\* C19: get_transition_analysis called with fewer than 2 ids returns the
\* empty list when no track data is loaded, and otherwise exactly one entry,
\* the 'not enough tracks' message, with no summary entry.
C19_FewerThanTwoIds ==
    (IsAnalysisCall /\ Len(call.arg) < 2) =>
        IF tracks_data.isNone \/ Len(Rows) = 0
        THEN ret = <<>>
        ELSE Len(ret) = 1 /\ ret[1].kind = "not enough tracks"

C19_Witness ==
    /\ IsAnalysisCall
    /\ Len(call.arg) = 1
    /\ call.arg[1] \in EligibleIds
    /\ Len(ret) = 1
    /\ ret[1].kind = "not enough tracks"

\* what the analysis must report for the pair of ids (id1, id2)
PairKind(id1, id2) ==
    IF id1 \notin EligibleIds \/ id2 \notin EligibleIds THEN "skipped"
    ELSE IF \E r \in {Row(id1), Row(id2)} :
                r.Camelot = NaNKey \/ r.BPM = NaN \/ r.Energy = NaN
    THEN "missing data"
    ELSE "scored"

SummaryKinds == {"summary", "summary no valid"}

\* C20: with track data loaded, the analysis of n >= 2 ids has n entries:
\* entry i <= n-1 has index i and is about the ids at positions i and i+1,
\* a placeholder without score when one of them has no record, a
\* missing-data entry without score when a record lacks key, BPM or energy,
\* a scored entry otherwise, whatever the entries before it are; the last
\* entry is the one summary, over the n-1 pairs and the scored ones.
C20_OneEntryPerPair ==
    (IsAnalysisCall /\ Len(call.arg) >= 2 /\ ~tracks_data.isNone /\ Len(Rows) > 0) =>
        LET n == Len(call.arg)
            scored == {i \in 1..(n - 1) :
                          PairKind(call.arg[i], call.arg[i + 1]) = "scored"}
        IN  /\ Len(ret) = n
            /\ \A i \in 1..(n - 1) :
                  /\ ret[i].index = i
                  /\ ret[i].track1 = call.arg[i]
                  /\ ret[i].track2 = call.arg[i + 1]
                  /\ ret[i].kind = PairKind(call.arg[i], call.arg[i + 1])
                  /\ i \in scored => ret[i].score = Score(call.arg[i], call.arg[i + 1])
                  /\ i \notin scored => ret[i].score = 0
            /\ ret[n].kind = (IF scored = {} THEN "summary no valid" ELSE "summary")
            /\ ret[n].valid_transitions = Cardinality(scored)
            /\ ret[n].total_transitions = n - 1

C20_Witness ==
    /\ IsAnalysisCall
    /\ call.arg = <<NoSuchId, 2, 1>>
    /\ Len(ret) = 3
    /\ ret[1].kind = "skipped"
    /\ ret[2].kind = "missing data"
    /\ ret[2].index = 2
    /\ ret[3].kind \in SummaryKinds

\* the sum of the scores of the transitions at the positions in S of the
\* analysed sequence
RECURSIVE ScoreSumAt(_)
ScoreSumAt(S) ==
    IF S = {} THEN 0
    ELSE LET i == CHOOSE j \in S : TRUE
         IN  Score(call.arg[i], call.arg[i + 1]) + ScoreSumAt(S \ {i})

\* C21: the summary of an analysis counts the scored entries in
\* valid_transitions and the pairs in total_transitions, and its average is
\* the sum of the scores of the scored entries, each the transition score of
\* its pair, over valid_transitions; with no scored entry the summary is the
\* 'no valid transitions' message without an average.
C21_Summary ==
    (IsAnalysisCall /\ Len(call.arg) >= 2 /\ ~tracks_data.isNone /\ Len(Rows) > 0) =>
        LET n == Len(call.arg)
            scored == {i \in 1..(n - 1) : ret[i].kind = "scored"}
        IN  /\ \A i \in scored : ret[i].score = Score(call.arg[i], call.arg[i + 1])
            /\ ret[n].valid_transitions = Cardinality(scored)
            /\ ret[n].total_transitions = n - 1
            /\ scored # {} => /\ ret[n].kind = "summary"
                              /\ ret[n].score = ScoreSumAt(scored)
            /\ scored = {} => /\ ret[n].kind = "summary no valid"
                              /\ ret[n].score = 0

C21_Witness ==
    /\ IsAnalysisCall
    /\ Len(call.arg) = 3
    /\ Len(ret) = 3
    /\ ret[1].kind = "scored" /\ ret[2].kind = "scored"
    /\ ret[1].score > ret[2].score
    /\ ret[2].score > 0
    /\ ret[3].kind = "summary"
    /\ ret[3].valid_transitions = 2
    /\ ret[3].score = ret[1].score + ret[2].score

IsCompareCall == call.op = "compare_playlists"

RECURSIVE SumPositionChange(_)
SumPositionChange(view) ==
    IF Len(view) = 0 THEN 0
    ELSE view[1].PositionChange + SumPositionChange(Tail(view))

\* what both statements of C22 share: positions count from 1 without gaps,
\* both views hold only ids of the loaded data, Original Position is the
\* position of the track in the original view, Position Change is Original
\* Position minus Position, and the changes of a permutation of the eligible
\* ids sum to 0
ViewsPositioned ==
    /\ \A i \in 1..Len(ret[1]) : ret[1][i].Position = i
    /\ \A i \in 1..Len(ret[2]) : ret[2][i].Position = i
    /\ SeqToSet(ids_of(ret[1])) \subseteq EligibleIds
    /\ SeqToSet(ids_of(ret[2])) \subseteq EligibleIds
    /\ \A i \in 1..Len(ret[2]) :
          /\ ret[2][i].OriginalPosition \in 1..Len(ret[1])
          /\ ret[1][ret[2][i].OriginalPosition].id = ret[2][i].id
          /\ ret[2][i].PositionChange = ret[2][i].OriginalPosition - i
    /\ IsPermutationOfEligible(call.arg) => SumPositionChange(ret[2]) = 0

C24_LoopTerminates ==
    (IsSortCall /\ ValidAnchor) =>
        LET n == Len(Rows)
        IN  /\ trace.iters = n - 1
            /\ 2 * trace.evals = n * (n - 1)
            /\ Len(trace.rems) = n
            /\ \A k \in 1..n :
                  /\ Len(trace.rems[k]) = n - k
                  /\ k < n => SeqToSet(trace.rems[k + 1]) \subseteq SeqToSet(trace.rems[k])
            /\ ~trace.stopped
            /\ ~InList("stopping sort", log)
            /\ ~InList("appending tracks not placed", log)
            /\ Len(ret) = trace.iters + 1

C24_Witness ==
    /\ IsSortCall
    /\ ValidAnchor
    /\ Len(Rows) = 3
    /\ trace.iters = 2
    /\ trace.evals = 3
    /\ Len(trace.rems[1]) = 2 /\ Len(trace.rems[3]) = 0

\* C28: an upstream energy that is already at most 1.0 is used unchanged,
\* whatever the energies of the other tracks loaded with it.
C28_NormalizedPerValue ==
    ~tracks_data.isNone =>
        \A i \in 1..Len(Rows) :
            UpstreamEnergy(Rows[i].id) <= 100
                => Rows[i].Energy = UpstreamEnergy(Rows[i].id)

\* C29: in every scored entry of an analysis key_compatible is the key
\* compatibility that calculate_transition_score used for the pair,
\* perfect_key_match says that the two keys are identical, and a perfect
\* match is a compatible one.
C29_FlagsAgree ==
    (IsAnalysisCall /\ ~tracks_data.isNone) =>
        \A i \in 1..Len(ret) :
            ret[i].kind = "scored" =>
                /\ ret[i].key_compatible
                       = key_compatible(camelot_map, Row(ret[i].track1).Camelot,
                                        Row(ret[i].track2).Camelot)
                /\ ret[i].perfect_key_match
                       = (Row(ret[i].track1).Camelot = Row(ret[i].track2).Camelot)
                /\ ret[i].perfect_key_match => ret[i].key_compatible

IsUpdateCall == call.op = "update_spotify_playlist"

\* the URIs of the ids the update was called with, in their order
SortedUris == [i \in 1..Len(call.arg) |-> uri(call.arg[i])]

\* C23: when update_spotify_playlist reports success and every sorted id
\* had a URI, the playlist on Spotify holds exactly the URIs of sorted_ids
\* in their order: one replace call wrote the first 100 at most, and add
\* calls appended the rest in consecutive batches of at most 100, in
\* increasing order, no URI dropped or written twice.
C23_PlaylistHoldsSortedUris ==
    (IsUpdateCall /\ ret.ok /\ ~InList("could only find some URIs", log)) =>
        LET n == Len(call.arg)
        IN  /\ sp_playlist[playlist_id] = SortedUris
            /\ Len(trace.calls) = (n + 99) \div 100
            /\ trace.calls[1].op = "playlist_replace_items"
            /\ \A k \in 1..Len(trace.calls) :
                  /\ k > 1 => trace.calls[k].op = "playlist_add_items"
                  /\ Len(trace.calls[k].items) \in 1..100
                  /\ trace.calls[k].items
                         = SubSeq(SortedUris, 100 * (k - 1) + 1,
                                  IF 100 * k < n THEN 100 * k ELSE n)

C23_Witness ==
    /\ IsUpdateCall
    /\ ret.ok
    /\ call.arg = LongIds
    /\ Len(trace.calls) = 3
    /\ Len(trace.calls[3].items) = LongLen - 200
    /\ sp_playlist[playlist_id] = SortedUris

\* the playlist on Spotify is the one load_playlist read
PlaylistAsLoaded ==
    /\ ~original_track_order.isNone
    /\ sp_playlist[playlist_id]
           = [i \in 1..Len(original_track_order.ids) |-> uri(original_track_order.ids[i])]

\* C25: a successful update_spotify_playlist with the result of
\* sort_playlist, on the playlist that load_playlist read, only reorders:
\* the playlist holds the same set of tracks after the update as before it,
\* the tracks excluded from sorting and the tracks without a URI included.
C25_UpdateOnlyReorders ==
    [][(/\ PlaylistAsLoaded
        /\ memo.set
        /\ call'.op = "update_spotify_playlist"
        /\ call'.arg = memo.ret
        /\ ret'.ok)
          => SeqToSet(sp_playlist'[playlist_id]) = SeqToSet(sp_playlist[playlist_id])]_vars

\* C26: update_spotify_playlist is all-or-nothing: when it returns
\* (False, message) the playlist on Spotify has the contents it had before
\* the call.
C26_UpdateAllOrNothing ==
    [][(call'.op = "update_spotify_playlist" /\ ~ret'.ok)
          => sp_playlist' = sp_playlist]_vars

\* C27: in the page's session, whenever sorted_ids is set it is a
\* permutation of the eligible ids of the sorter the session holds, that
\* sorter is the one of the selected playlist, and original_df, sorted_df
\* and transitions are what this sorter gives for this ordering.
C27_SessionConsistent ==
    ~session.sorted_ids.isNone =>
        LET self == session.sorter
            sorted_ids == session.sorted_ids.ids
            eligible == ids_of(self.tracks_data.rows)
        IN  /\ ~self.isNone
            /\ self.playlist_id = session.playlist_id
            /\ Len(sorted_ids) = Len(eligible)
            /\ SeqToSet(sorted_ids) = SeqToSet(eligible)
            /\ session.original_df
                   = Frame(ComparePlaylists(self.tracks_data,
                                            self.original_track_order, sorted_ids)[1])
            /\ session.sorted_df
                   = Frame(ComparePlaylists(self.tracks_data,
                                            self.original_track_order, sorted_ids)[2])
            /\ session.transitions
                   = [isNone |-> FALSE,
                      entries |-> GetTransitionAnalysis(self.tracks_data,
                                                        _build_camelot_map, sorted_ids)]

====
